---- MODULE Spec2Model ----
(***************************************************************************)
(* Workflow orchestration layer of the Image Description Toolkit           *)
(* (scripts/workflow.py, scripts/workflow_utils.py): the command line      *)
(* entry point main(), WorkflowOrchestrator.run_workflow and the four      *)
(* step methods, over an abstract file system.                             *)
(***************************************************************************)
EXTENDS Integers, Sequences, FiniteSets, TLC

\* ---------------------------------------------------------------- bounds
MaxSteps == 3
MaxFiles == 1
MaxRuns == 2
MaxClock == 1
MaxName == 2
MaxCalls == 2
MaxSanitized == 3
MaxRunSteps == 2

\* ------------------------------------------------------------- vocabulary
None == "None"

\* the tokens a caller may put in the step list; "bogus" stands for any name
\* outside the four valid ones
StepTokens == {"video", "convert", "describe", "html", "bogus"}

\* whether a step list holds a name outside the four valid ones
HasUnknown(steps) ==
    \E k \in DOMAIN steps : steps[k] \notin {"video", "convert", "describe", "html"}

\* the directory the caller names as input
InputDir == "input"

Categories == {"videos", "images", "heic", "descriptions"}

VARIABLES
    args,               \* the invocation: entry point, flags, step list
    files,              \* file system: directory -> category -> number of files
    created,            \* directories and files created since the start
    pc,                 \* position of the single thread of control
    config,             \* WorkflowConfig.config: "unset", "loaded" or None
    step_idx,           \* index of the step run_workflow is at
    current_input_dir,  \* run_workflow's current_input_dir
    step_results,       \* self.step_results
    workflow_results,   \* run_workflow's workflow_results
    loc,                \* locals of the step method that is running
    proc,               \* the external process the orchestrator blocks on
    calls,              \* history: external processes invoked
    attempted,          \* history: step methods called, in order
    exit_code,          \* main()'s exit status, -1 until it exits
    summary,            \* parts of the WORKFLOW SUMMARY emitted so far
    interrupt_at,       \* pc at which a KeyboardInterrupt arrived, or None
    descriptions_txt,   \* image_descriptions.txt in the descriptions directory:
                        \* the source directories whose entries it holds
    entries_written,    \* history: the source directories whose entries a
                        \* describer wrote during the run
    run_no,             \* number of calls of run_workflow on the orchestrator
    clock,              \* the wall clock, in seconds
    resolved,           \* history: the output directory each started run resolved
    disk,               \* the paths that exist, for the utility functions
    lib_config,         \* WorkflowConfig.config of the utility functions
    glob_case_sensitive,\* whether the platform's glob tells "A" from "a"
    ret                 \* the last call of a utility function and its outcome

\* the state of one invocation of the workflow
workflow_vars == <<args, files, created, pc, config, step_idx, current_input_dir,
                   step_results, workflow_results, loc, proc, calls, attempted,
                   exit_code, summary, interrupt_at, descriptions_txt,
                   entries_written, run_no>>

\* the state behind the naming of output directories
naming_vars == <<clock, resolved>>

\* the state the utility functions of workflow_utils.py work on
library_vars == <<disk, lib_config, glob_case_sensitive, ret>>

vars == <<workflow_vars, naming_vars, library_vars>>

\* ------------------------------------------------------------ Python dicts
Get(d, k) == IF k \in DOMAIN d THEN d[k] ELSE None

Put(d, k, v) == [x \in DOMAIN d \cup {k} |-> IF x = k THEN v ELSE d[x]]

EmptyDict == [x \in {} |-> None]

\* ------------------------------------------------------------ workflow.py
valid_steps == {"video", "convert", "describe", "html"}

available_steps == {"video", "convert", "describe", "html"}

\* a validation that looks at the first token of the list only
invalid_steps_first_only(steps) ==
    SelectSeq(SubSeq(steps, 1, 1), LAMBDA s : s \notin valid_steps)

\* main(): invalid_steps = [step for step in steps if step not in valid_steps]
invalid_steps(steps) == SelectSeq(steps, LAMBDA s : s \notin valid_steps)

\* run_workflow's literal dict from the step to its configuration name
StepConfigName(step) ==
    CASE step = "video"    -> "video_extraction"
      [] step = "convert"  -> "image_conversion"
      [] step = "describe" -> "image_description"
      [] step = "html"     -> "html_generation"

\* "output_subdir" of each configured step
OutputSubdir(step_name) ==
    CASE step_name = "video_extraction"  -> "extracted_frames"
      [] step_name = "image_conversion"  -> "converted_images"
      [] step_name = "image_description" -> "descriptions"
      [] step_name = "html_generation"   -> "html_reports"
      [] OTHER                           -> step_name

\* WorkflowConfig.get_step_output_dir: the path; the mkdir is in the actions
get_step_output_dir(step_name) == OutputSubdir(step_name)

\* create_workflow_paths: the directories it creates
WorkflowPaths ==
    {"extracted_frames", "converted_images", "descriptions", "html_reports", "logs"}

\* WorkflowLogger.__init__: the logs directory and the log file it opens
LoggerCreates == {"logs", "logfile"}

\* FileDiscovery.find_files_by_type: the number of files it returns
find_files_by_type(fs, directory, file_type) ==
    IF file_type \notin Categories THEN 0
    ELSE IF directory \notin DOMAIN fs THEN 0
    ELSE fs[directory][file_type]

\* an exit status that ignores the result of the run
ExitStatus_AlwaysZero(success) == 0

\* main(): sys.exit(0 if results['success'] else 1)
ExitStatus(success) == IF success THEN 0 ELSE 1

\* ------------------------------------------------------------------ state
NoProc == [tool |-> None, dir |-> None, hangs |-> FALSE]

NoLoc == [input_dir |-> None, n |-> 0, res |-> EmptyDict, search_dirs |-> <<>>,
          j |-> 0, total |-> 0, desc_file |-> None]

\* the step lists enumerated: up to MaxSteps names, none of them twice
StepLists ==
    {s \in UNION {[1..n -> StepTokens] : n \in 1..MaxSteps} :
        \A a, b \in DOMAIN s : s[a] = s[b] => a = b}

Counts == 0..MaxFiles

NoFiles == [c \in Categories |-> 0]

\* the invocations: main() from the command line, or run_workflow called on
\* an orchestrator a caller constructed
Invocations ==
    [entry : {"cli", "api"}, dry_run : BOOLEAN, input_exists : BOOLEAN,
     config_exists : BOOLEAN, prompt_style : BOOLEAN, steps : StepLists]

\* whether a run of these arguments gets as far as the step of that name
Reaches(a, step) ==
    /\ a.input_exists
    /\ ~a.dry_run
    /\ a.config_exists
    /\ (a.entry = "cli" => ~HasUnknown(a.steps))
    /\ \E k \in DOMAIN a.steps : a.steps[k] = step

\* the file systems enumerated for an invocation: the counts the run can read
\* range over Counts, the ones no step of the run looks at are left at 0
InitFiles(a) ==
    {[d \in {InputDir, "extracted_frames", "converted_images", "descriptions"} |->
        CASE d = InputDir ->
                [videos |-> v, images |-> im, heic |-> h,
                 descriptions |-> IF dsc THEN 1 ELSE 0]
          [] d = "extracted_frames" -> NoFiles
          [] d = "converted_images" -> [NoFiles EXCEPT !.images = cv]
          [] d = "descriptions" ->
                [NoFiles EXCEPT !.descriptions = IF od THEN 1 ELSE 0]] :
        v \in {x \in Counts : x > 0 => Reaches(a, "video")},
        h \in {x \in Counts : x > 0 => Reaches(a, "convert")},
        im \in {x \in Counts : x > 0 => Reaches(a, "describe")},
        cv \in {x \in Counts : x > 0 => Reaches(a, "describe")},
        dsc \in {x \in BOOLEAN : x => Reaches(a, "html")},
        od \in {x \in BOOLEAN : x => Reaches(a, "describe") \/ Reaches(a, "html")}}

\* no run has resolved an output directory
NamingAtRest ==
    /\ clock = 0
    /\ resolved = <<>>

\* no utility function has been called
LibraryAtRest ==
    /\ disk = {}
    /\ lib_config = <<>>
    /\ glob_case_sensitive = TRUE
    /\ ret = <<>>

Init ==
    /\ args \in {a \in Invocations :
                    \* the lists main() accepts reach run_workflow through
                    \* main(); a direct caller is enumerated for the others,
                    \* without main()'s flags
                    a.entry = "api" => /\ ~a.dry_run
                                       /\ a.input_exists
                                       /\ HasUnknown(a.steps)}
    /\ files \in InitFiles(args)
    /\ created = {}
    /\ pc = IF args.entry = "cli" THEN "main" ELSE "create_config"
    /\ config = "unset"
    /\ step_idx = 0
    /\ current_input_dir = None
    /\ step_results = EmptyDict
    /\ workflow_results = EmptyDict
    /\ loc = NoLoc
    /\ proc = NoProc
    /\ calls = <<>>
    /\ attempted = <<>>
    /\ exit_code = -1
    /\ summary = 0
    /\ interrupt_at = None
    /\ descriptions_txt =
          IF files["descriptions"].descriptions > 0 THEN {"earlier"} ELSE {}
    /\ entries_written = {}
    /\ run_no = 1
    /\ NamingAtRest
    /\ LibraryAtRest

\* main() leaves through sys.exit(code)
Exit(code) ==
    /\ pc' = "exited"
    /\ exit_code' = code

\* ------------------------------------------------------------------ main()
\* argument handling up to the validation of the step list
Main_Validate ==
    /\ pc = "main"
    /\ IF ~args.input_exists THEN Exit(1)
       ELSE IF invalid_steps(args.steps) # <<>> THEN Exit(1)
       ELSE pc' = "create_config" /\ UNCHANGED exit_code
    /\ UNCHANGED <<naming_vars, library_vars, run_no, descriptions_txt,
                   entries_written, args, files, created, config, step_idx, current_input_dir,
                   step_results, workflow_results, loc, proc, calls, attempted,
                   summary, interrupt_at>>

\* WorkflowOrchestrator.__init__: WorkflowConfig(config_file); load_config
\* answers get_default_config() for a missing file, and that method returns
\* nothing because its body only defines a nested function
Orch_CreateConfig ==
    /\ pc = "create_config"
    /\ config' = IF args.config_exists THEN "loaded" ELSE None
    /\ pc' = "create_logger"
    /\ UNCHANGED <<naming_vars, library_vars, run_no, descriptions_txt,
                   entries_written, args, files, created, step_idx, current_input_dir,
                   step_results, workflow_results, loc, proc, calls, attempted,
                   exit_code, summary, interrupt_at>>

\* WorkflowOrchestrator.__init__: WorkflowLogger(...) makes logs/ and opens
\* the log file
Orch_CreateLogger ==
    /\ pc = "create_logger"
    /\ created' = created \cup LoggerCreates
    /\ pc' = IF args.entry = "cli" THEN "created" ELSE "rw_init"
    /\ UNCHANGED <<naming_vars, library_vars, run_no, descriptions_txt,
                   entries_written, args, files, config, step_idx, current_input_dir,
                   step_results, workflow_results, loc, proc, calls, attempted,
                   exit_code, summary, interrupt_at>>

\* main() after the orchestrator exists: the dry run, or the overrides of
\* the configuration (a subscript of None raises TypeError: exit 1)
Main_AfterCreate ==
    /\ pc = "created"
    /\ IF args.dry_run THEN Exit(0)
       ELSE IF args.prompt_style /\ config = None THEN Exit(1)
       ELSE pc' = "rw_init" /\ UNCHANGED exit_code
    /\ UNCHANGED <<naming_vars, library_vars, run_no, descriptions_txt,
                   entries_written, args, files, created, config, step_idx, current_input_dir,
                   step_results, workflow_results, loc, proc, calls, attempted,
                   summary, interrupt_at>>

\* ------------------------------------------------------------ run_workflow
\* a dispatch that threads the output of the previous step into every step
StepInputDir_Threaded(step, input_dir, cur) == cur

\* a dispatch that hands describe the output of the previous step
StepInputDir_Chained(step, input_dir, cur) ==
    CASE step = "convert" -> input_dir
      [] OTHER            -> cur

\* which directory a step method is handed as input_dir
StepInputDir(step, input_dir, cur) ==
    CASE step = "html"     -> cur
      [] step = "describe" -> input_dir
      [] step = "convert"  -> input_dir
      [] OTHER             -> cur

\* the pc at which each step method starts
StepEntry(step) ==
    CASE step = "video"    -> "video_find"
      [] step = "convert"  -> "convert_find"
      [] step = "describe" -> "describe_find"
      [] step = "html"     -> "html_find"

\* an exception that leaves run_workflow: main() turns it into exit code 1,
\* an API caller sees it raised
Uncaught ==
    IF args.entry = "cli" THEN Exit(1)
    ELSE pc' = "raised" /\ UNCHANGED exit_code

\* set_base_output_dir, create_workflow_paths, the initial workflow_results
RW_Init ==
    /\ pc = "rw_init"
    /\ created' = created \cup WorkflowPaths
    /\ workflow_results' =
          [success |-> TRUE, steps_completed |-> <<>>, steps_failed |-> <<>>]
    /\ current_input_dir' = InputDir
    /\ step_idx' = 1
    /\ pc' = "loop"
    /\ UNCHANGED <<naming_vars, library_vars, run_no, descriptions_txt,
                   entries_written, args, files, config, step_results, loc, proc, calls,
                   attempted, exit_code, summary, interrupt_at>>

\* an unknown step is recorded in steps_failed and skipped
RecordUnknown(results, step) ==
    [results EXCEPT !.steps_failed = Append(@, step)]

\* head of "for step in steps": the unknown step, or get_step_output_dir
\* (which reads self.config and creates the directory) and the dispatch
RW_Loop ==
    /\ pc = "loop"
    /\ step_idx <= Len(args.steps)
    /\ LET step == args.steps[step_idx] IN
       IF step \notin available_steps
       THEN /\ workflow_results' = RecordUnknown(workflow_results, step)
            /\ step_idx' = step_idx + 1
            /\ UNCHANGED <<pc, created, attempted, loc, exit_code>>
       ELSE IF config = None
       THEN /\ Uncaught
            /\ UNCHANGED <<workflow_results, step_idx, created, attempted, loc>>
       ELSE /\ created' = created \cup {get_step_output_dir(StepConfigName(step))}
            /\ LET input_dir == StepInputDir(step, InputDir, current_input_dir) IN
               /\ attempted' = Append(attempted, [step |-> step, input_dir |-> input_dir])
               /\ loc' = [NoLoc EXCEPT !.input_dir = input_dir]
            /\ pc' = StepEntry(step)
            /\ UNCHANGED <<workflow_results, step_idx, exit_code>>
    /\ UNCHANGED <<naming_vars, library_vars, run_no, descriptions_txt,
                   entries_written, args, files, config, current_input_dir, step_results, proc,
                   calls, summary, interrupt_at>>

\* the directory handed to the next step once a step has succeeded
NextInputDir(step, step_result, cur) ==
    IF step \in {"video", "convert"} /\ Get(step_result, "output_dir") # None
    THEN step_result.output_dir
    ELSE cur

\* workflow_results after a step returned step_result
RecordResult(results, step, step_result) ==
    IF step_result.success
    THEN [results EXCEPT !.steps_completed = Append(@, step)]
    ELSE [results EXCEPT !.steps_failed = Append(@, step), !.success = FALSE]

\* the step method returned loc.res
RW_Record ==
    /\ pc = "record"
    /\ LET step == args.steps[step_idx] IN
       /\ step_results' = Put(step_results, step, loc.res)
       /\ workflow_results' = RecordResult(workflow_results, step, loc.res)
       /\ current_input_dir' =
             IF loc.res.success
             THEN NextInputDir(step, loc.res, current_input_dir)
             ELSE current_input_dir
    /\ step_idx' = step_idx + 1
    /\ loc' = NoLoc
    /\ pc' = "loop"
    /\ UNCHANGED <<naming_vars, library_vars, run_no, descriptions_txt,
                   entries_written, args, files, created, config, proc, calls, attempted,
                   exit_code, summary, interrupt_at>>

\* workflow_results after a step method raised
RecordException(results, step) ==
    [results EXCEPT !.steps_failed = Append(@, step), !.success = FALSE]

\* "except Exception as e" around the step method
RW_Except ==
    /\ pc = "except"
    /\ LET step == args.steps[step_idx] IN
       /\ workflow_results' = RecordException(workflow_results, step)
       /\ step_results' =
             Put(step_results, step, [success |-> FALSE, error |-> <<"exception">>])
    /\ step_idx' = step_idx + 1
    /\ pc' = "loop"
    /\ UNCHANGED <<naming_vars, library_vars, run_no, descriptions_txt,
                   entries_written, args, files, created, config, current_input_dir, loc, proc,
                   calls, attempted, exit_code, summary, interrupt_at>>

\* after the loop: final statistics, return workflow_results
RW_Return ==
    /\ pc = "loop"
    /\ step_idx > Len(args.steps)
    /\ pc' = IF args.entry = "cli" THEN "summary_log" ELSE "returned"
    /\ UNCHANGED <<naming_vars, library_vars, run_no, descriptions_txt,
                   entries_written, args, files, created, config, step_idx, current_input_dir,
                   step_results, workflow_results, loc, proc, calls, attempted,
                   exit_code, summary, interrupt_at>>

\* main(): the summary through the logger
Main_SummaryLog ==
    /\ pc = "summary_log"
    /\ summary' = 1
    /\ pc' = "summary_print"
    /\ UNCHANGED <<naming_vars, library_vars, run_no, descriptions_txt,
                   entries_written, args, files, created, config, step_idx, current_input_dir,
                   step_results, workflow_results, loc, proc, calls, attempted,
                   exit_code, interrupt_at>>

\* main(): the summary on the console, then sys.exit
Main_SummaryPrint ==
    /\ pc = "summary_print"
    /\ summary' = 2
    /\ Exit(ExitStatus(workflow_results.success))
    /\ UNCHANGED <<naming_vars, library_vars, run_no, descriptions_txt,
                   entries_written, args, files, created, config, step_idx, current_input_dir,
                   step_results, workflow_results, loc, proc, calls, attempted,
                   interrupt_at>>

\* ------------------------------------------------------------ step methods
\* what an external process can leave on its error stream
Stderrs == {"", "diagnostic"}

\* a step method without its early return
NothingToDo_Never(n) == FALSE

\* "if not files: return {success: True, processed: 0, output_dir: ...}"
NothingToDo(n) == n = 0

NoInputResult(output_dir) ==
    [success |-> TRUE, processed |-> 0, output_dir |-> output_dir]

\* a step that reports success whatever the exit status
FailedResult_AsSuccess(stderr) ==
    [success |-> TRUE, processed |-> 0, error |-> <<stderr>>]

\* a non-zero exit status: {"success": False, "error": result.stderr}
FailedResult(stderr) == [success |-> FALSE, error |-> <<stderr>>]

\* "except Exception as e" inside a step: {"success": False, "error": str(e)}
RaisedResult == [success |-> FALSE, error |-> <<"exception">>]

\* subprocess.run returned a CompletedProcess with that returncode: the last
\* process invoked has exited
Exited(cs, returncode) ==
    [cs EXCEPT ![Len(cs)].status = "exited", ![Len(cs)].returncode = returncode]

\* subprocess.run raised: there is no returncode
RunRaised(cs) == [cs EXCEPT ![Len(cs)].status = "raised"]

\* subprocess.run(cmd, capture_output=True, ...): no timeout is passed, the
\* orchestrator blocks until the process returns; a process may never return
StartProc(tool, dir, arg) ==
    /\ \E h \in BOOLEAN : proc' = [tool |-> tool, dir |-> dir, hangs |-> h]
    /\ calls' = Append(calls, [tool |-> tool, dir |-> dir, arg |-> arg,
                               status |-> "running", returncode |-> -1])

\* the step method raises before its own try block: run_workflow catches it
Step_Raises ==
    /\ pc \in {"video_find", "convert_find", "describe_find", "html_find"}
    /\ pc' = "except"
    /\ UNCHANGED <<naming_vars, library_vars, run_no, descriptions_txt,
                   entries_written, args, files, created, config, step_idx, current_input_dir,
                   step_results, workflow_results, loc, proc, calls, attempted,
                   exit_code, summary, interrupt_at>>

\* extract_video_frames up to subprocess.run (the update of the extractor's
\* configuration file rewrites an existing file and swallows its errors)
Video_Find ==
    /\ pc = "video_find"
    /\ LET input_dir == loc.input_dir
           n == find_files_by_type(files, input_dir, "videos")
       IN IF NothingToDo(n)
          THEN /\ loc' = [loc EXCEPT !.res = NoInputResult("extracted_frames")]
               /\ pc' = "record"
               /\ UNCHANGED <<proc, calls>>
          ELSE /\ loc' = [loc EXCEPT !.n = n]
               /\ StartProc("video_frame_extractor.py", input_dir, None)
               /\ pc' = "video_run"
    /\ UNCHANGED <<naming_vars, library_vars, run_no, descriptions_txt,
                   entries_written, args, files, created, config, step_idx, current_input_dir,
                   step_results, workflow_results, attempted, exit_code,
                   summary, interrupt_at>>

\* the extractor returned (or subprocess.run raised)
Video_Return ==
    /\ pc = "video_run"
    /\ ~proc.hangs
    /\ \/ \E k \in Counts :
            /\ calls' = Exited(calls, 0)
            /\ k >= files["extracted_frames"].images
            /\ files' = [files EXCEPT !["extracted_frames"].images = k]
            /\ loc' = [loc EXCEPT !.res =
                  [success |-> TRUE, processed |-> loc.n,
                   output_dir |-> "extracted_frames", extracted_frames |-> k]]
       \/ \E e \in Stderrs :
            /\ calls' = Exited(calls, 1)
            /\ loc' = [loc EXCEPT !.res = FailedResult(e)]
            /\ UNCHANGED files
       \/ /\ loc' = [loc EXCEPT !.res = RaisedResult]
          /\ calls' = RunRaised(calls)
          /\ UNCHANGED files
    /\ proc' = NoProc
    /\ pc' = "record"
    /\ UNCHANGED <<naming_vars, library_vars, run_no, descriptions_txt,
                   entries_written, args, created, config, step_idx, current_input_dir,
                   step_results, workflow_results, attempted, exit_code,
                   summary, interrupt_at>>

\* convert_images up to subprocess.run
Convert_Find ==
    /\ pc = "convert_find"
    /\ LET input_dir == loc.input_dir
           n == find_files_by_type(files, input_dir, "heic")
       IN IF NothingToDo(n)
          THEN /\ loc' = [loc EXCEPT !.res = NoInputResult("converted_images")]
               /\ pc' = "record"
               /\ UNCHANGED <<proc, calls>>
          ELSE /\ loc' = [loc EXCEPT !.n = n]
               /\ StartProc("ConvertImage.py", input_dir, None)
               /\ pc' = "convert_run"
    /\ UNCHANGED <<naming_vars, library_vars, run_no, descriptions_txt,
                   entries_written, args, files, created, config, step_idx, current_input_dir,
                   step_results, workflow_results, attempted, exit_code,
                   summary, interrupt_at>>

\* the converter returned (or subprocess.run raised)
Convert_Return ==
    /\ pc = "convert_run"
    /\ ~proc.hangs
    /\ \/ \E k \in Counts :
            /\ calls' = Exited(calls, 0)
            /\ k >= files["converted_images"].images
            /\ files' = [files EXCEPT !["converted_images"].images = k]
            /\ loc' = [loc EXCEPT !.res =
                  [success |-> TRUE, processed |-> loc.n,
                   output_dir |-> "converted_images", converted_images |-> k]]
       \/ \E e \in Stderrs :
            /\ calls' = Exited(calls, 1)
            /\ loc' = [loc EXCEPT !.res = FailedResult(e)]
            /\ UNCHANGED files
       \/ /\ loc' = [loc EXCEPT !.res = RaisedResult]
          /\ calls' = RunRaised(calls)
          /\ UNCHANGED files
    /\ proc' = NoProc
    /\ pc' = "record"
    /\ UNCHANGED <<naming_vars, library_vars, run_no, descriptions_txt,
                   entries_written, args, created, config, step_idx, current_input_dir,
                   step_results, workflow_results, attempted, exit_code,
                   summary, interrupt_at>>

\* describe_images: "if d.exists() and any(d.iterdir())" for a step directory
HasContent(fs, d) == fs[d].images > 0

\* a list that puts the extracted frames before the converted images
SearchDirs_FramesFirst(fs, input_dir) ==
    <<input_dir>>
    \o (IF HasContent(fs, "extracted_frames") THEN <<"extracted_frames">> ELSE <<>>)
    \o (IF HasContent(fs, "converted_images") THEN <<"converted_images">> ELSE <<>>)

\* describe_images: search_dirs
SearchDirs(fs, input_dir) ==
    <<input_dir>>
    \o (IF HasContent(fs, "converted_images") THEN <<"converted_images">> ELSE <<>>)
    \o (IF HasContent(fs, "extracted_frames") THEN <<"extracted_frames">> ELSE <<>>)

RECURSIVE CountAll(_, _)
\* len(all_image_files)
CountAll(fs, dirs) ==
    IF dirs = <<>> THEN 0
    ELSE find_files_by_type(fs, Head(dirs), "images") + CountAll(fs, Tail(dirs))

\* describe_images up to the loop over search_dirs; both step directories
\* are looked up with get_step_output_dir, which creates them
Describe_Find ==
    /\ pc = "describe_find"
    /\ created' = created \cup {get_step_output_dir("image_conversion"),
                                get_step_output_dir("video_extraction")}
    /\ LET input_dir == loc.input_dir
           dirs == SearchDirs(files, input_dir)
       IN IF NothingToDo(CountAll(files, dirs))
          THEN /\ loc' = [loc EXCEPT !.res = NoInputResult("descriptions")]
               /\ pc' = "record"
          ELSE /\ loc' = [loc EXCEPT !.search_dirs = dirs, !.j = 1, !.total = 0]
               /\ pc' = "describe_dir"
    /\ UNCHANGED <<naming_vars, library_vars, run_no, descriptions_txt,
                   entries_written, args, files, config, step_idx, current_input_dir,
                   step_results, workflow_results, proc, calls, attempted,
                   exit_code, summary, interrupt_at>>

\* head of "for i, search_dir in enumerate(search_dirs)": a directory without
\* images is skipped; with a configured prompt style the command is run at
\* once, otherwise get_default_prompt_style is consulted first
Describe_Dir ==
    /\ pc = "describe_dir"
    /\ loc.j <= Len(loc.search_dirs)
    /\ LET search_dir == loc.search_dirs[loc.j]
           n == find_files_by_type(files, search_dir, "images")
       IN IF n = 0
          THEN /\ loc' = [loc EXCEPT !.j = @ + 1]
               /\ UNCHANGED <<pc, proc, calls>>
          ELSE IF args.prompt_style
          THEN /\ loc' = [loc EXCEPT !.n = n]
               /\ StartProc("image_describer.py", search_dir, None)
               /\ pc' = "describe_run"
          ELSE /\ loc' = [loc EXCEPT !.n = n]
               /\ pc' = "describe_style"
               /\ UNCHANGED <<proc, calls>>
    /\ UNCHANGED <<naming_vars, library_vars, run_no, descriptions_txt,
                   entries_written, args, files, created, config, step_idx, current_input_dir,
                   step_results, workflow_results, attempted, exit_code,
                   summary, interrupt_at>>

\* get_default_prompt_style returned; subprocess.run
Describe_Style ==
    /\ pc = "describe_style"
    /\ StartProc("image_describer.py", loc.search_dirs[loc.j], None)
    /\ pc' = "describe_run"
    /\ UNCHANGED <<naming_vars, library_vars, run_no, descriptions_txt,
                   entries_written, args, files, created, config, step_idx, current_input_dir,
                   step_results, workflow_results, loc, attempted, exit_code,
                   summary, interrupt_at>>

\* f"Failed processing {search_dir}: {result.stderr}"
DescribeFailed(search_dir, stderr) ==
    [success |-> FALSE, error |-> <<"Failed processing ", search_dir, ": ", stderr>>]

\* image_describer.py, process_directory: the output file is opened with
\* mode 'w' and given a header, then the entries of the directory are
\* appended one by one: what the file holds after the sub-invocation
WriteDescriptions(held, directory) == {directory}

\* the describer returned (or subprocess.run raised); on success it may have
\* written image_descriptions.txt into the descriptions directory (it also
\* exits with 0 when it could not create the file)
Describe_Return ==
    /\ pc = "describe_run"
    /\ ~proc.hangs
    /\ \/ \E d \in 0..1 :
            /\ calls' = Exited(calls, 0)
            /\ d >= files["descriptions"].descriptions
            /\ files' = [files EXCEPT !["descriptions"].descriptions = d]
            /\ IF d = 1
               THEN /\ descriptions_txt' = WriteDescriptions(descriptions_txt, proc.dir)
                    /\ entries_written' = entries_written \cup {proc.dir}
               ELSE UNCHANGED <<descriptions_txt, entries_written>>
            /\ loc' = [loc EXCEPT !.total = @ + loc.n, !.j = @ + 1]
            /\ pc' = "describe_dir"
       \/ \E e \in Stderrs :
            /\ calls' = Exited(calls, 1)
            /\ loc' = [loc EXCEPT !.res = DescribeFailed(proc.dir, e)]
            /\ pc' = "record"
            /\ UNCHANGED <<files, descriptions_txt, entries_written>>
       \/ /\ loc' = [loc EXCEPT !.res = RaisedResult]
          /\ calls' = RunRaised(calls)
          /\ pc' = "record"
          /\ UNCHANGED <<files, descriptions_txt, entries_written>>
    /\ proc' = NoProc
    /\ UNCHANGED <<naming_vars, library_vars, run_no, args, created, config, step_idx, current_input_dir,
                   step_results, workflow_results, attempted, exit_code,
                   summary, interrupt_at>>

\* after the loop: "if target_desc_file.exists()"
Describe_Check ==
    /\ pc = "describe_dir"
    /\ loc.j > Len(loc.search_dirs)
    /\ loc' = [loc EXCEPT !.res =
          IF files["descriptions"].descriptions > 0
          THEN [success |-> TRUE, processed |-> loc.total,
                output_dir |-> "descriptions", description_file |-> "descriptions"]
          ELSE [success |-> FALSE, error |-> <<"Description file not created">>]]
    /\ pc' = "record"
    /\ UNCHANGED <<naming_vars, library_vars, run_no, descriptions_txt,
                   entries_written, args, files, created, config, step_idx, current_input_dir,
                   step_results, workflow_results, proc, calls, attempted,
                   exit_code, summary, interrupt_at>>

\* run_workflow: the desc_file it hands to generate_html
RecordedDescFile(results) ==
    IF "describe" \in DOMAIN results
    THEN Get(results["describe"], "description_file")
    ELSE None

\* a description file is named by the directory that holds it
Exists(fs, desc_file) == find_files_by_type(fs, desc_file, "descriptions") > 0

\* a choice that falls back on the descriptions directory without looking
\* whether a description file is there
ChooseDescFile_Unchecked(fs, input_dir, description_file, results) ==
    IF description_file # None
    THEN description_file
    ELSE get_step_output_dir("image_description")

\* a choice that looks in the descriptions directory before the directory
\* it was given
ChooseDescFile_OutputDirFirst(fs, input_dir, description_file, results) ==
    IF description_file # None /\ Exists(fs, description_file)
    THEN description_file
    ELSE IF find_files_by_type(fs, get_step_output_dir("image_description"),
                               "descriptions") > 0
    THEN get_step_output_dir("image_description")
    ELSE IF find_files_by_type(fs, input_dir, "descriptions") > 0
    THEN input_dir
    ELSE RecordedDescFile(results)

\* generate_html: the description file it settles on, None for none
ChooseDescFile(fs, input_dir, description_file, results) ==
    IF description_file # None /\ Exists(fs, description_file)
    THEN description_file
    ELSE IF find_files_by_type(fs, input_dir, "descriptions") > 0
    THEN input_dir
    ELSE IF find_files_by_type(fs, get_step_output_dir("image_description"),
                               "descriptions") > 0
    THEN get_step_output_dir("image_description")
    ELSE RecordedDescFile(results)

\* generate_html up to subprocess.run
Html_Find ==
    /\ pc = "html_find"
    /\ LET input_dir == loc.input_dir
           desc_file == ChooseDescFile(files, input_dir,
                                       RecordedDescFile(step_results), step_results)
       IN IF desc_file = None
          THEN /\ created' = created \cup {get_step_output_dir("image_description")}
               /\ loc' = [loc EXCEPT !.res = NoInputResult("html_reports")]
               /\ pc' = "record"
               /\ UNCHANGED <<proc, calls>>
          ELSE /\ created' = created \cup
                     (IF desc_file = RecordedDescFile(step_results)
                         /\ Exists(files, desc_file)
                      THEN {} ELSE {get_step_output_dir("image_description")})
               /\ loc' = [loc EXCEPT !.desc_file = desc_file]
               /\ StartProc("descriptions_to_html.py", input_dir, desc_file)
               /\ pc' = "html_run"
    /\ UNCHANGED <<naming_vars, library_vars, run_no, descriptions_txt,
                   entries_written, args, files, config, step_idx, current_input_dir,
                   step_results, workflow_results, attempted, exit_code,
                   summary, interrupt_at>>

\* the renderer returned (or subprocess.run raised); on success it wrote
\* html_reports/image_descriptions.html
Html_Return ==
    /\ pc = "html_run"
    /\ ~proc.hangs
    /\ \/ /\ created' = created \cup {"image_descriptions.html"}
          /\ calls' = Exited(calls, 0)
          /\ loc' = [loc EXCEPT !.res =
                [success |-> TRUE, processed |-> 1, output_dir |-> "html_reports",
                 html_file |-> "image_descriptions.html"]]
       \/ \E e \in Stderrs :
            /\ calls' = Exited(calls, 1)
            /\ loc' = [loc EXCEPT !.res = FailedResult(e)]
            /\ UNCHANGED created
       \/ /\ loc' = [loc EXCEPT !.res = RaisedResult]
          /\ calls' = RunRaised(calls)
          /\ UNCHANGED created
    /\ proc' = NoProc
    /\ pc' = "record"
    /\ UNCHANGED <<naming_vars, library_vars, run_no, descriptions_txt,
                   entries_written, args, files, config, step_idx, current_input_dir,
                   step_results, workflow_results, attempted, exit_code,
                   summary, interrupt_at>>

\* -------------------------------------------------------- KeyboardInterrupt
\* where main() is inside its try block
InTry ==
    {"create_config", "create_logger", "created", "rw_init", "loop", "record",
     "except", "video_find", "video_run", "convert_find", "convert_run",
     "describe_find", "describe_dir", "describe_style", "describe_run",
     "html_find", "html_run", "summary_log", "summary_print"}

\* where a bare "except:" is in force: get_default_prompt_style
BareExcept == {"describe_style"}

\* a KeyboardInterrupt passes every "except Exception" and reaches main()'s
\* handler: sys.exit(130)
Interrupt ==
    /\ args.entry = "cli"
    /\ interrupt_at = None
    /\ pc \in InTry \ BareExcept
    /\ interrupt_at' = pc
    /\ proc' = NoProc
    /\ Exit(130)
    /\ UNCHANGED <<naming_vars, library_vars, run_no, descriptions_txt,
                   entries_written, args, files, created, config, step_idx, current_input_dir,
                   step_results, workflow_results, loc, calls, attempted, summary>>

\* a KeyboardInterrupt inside get_default_prompt_style is caught by its bare
\* "except:", which falls through to return "detailed"
Interrupt_Swallowed ==
    /\ args.entry = "cli"
    /\ interrupt_at = None
    /\ pc \in BareExcept
    /\ interrupt_at' = pc
    /\ StartProc("image_describer.py", loc.search_dirs[loc.j], None)
    /\ pc' = "describe_run"
    /\ UNCHANGED <<naming_vars, library_vars, run_no, descriptions_txt,
                   entries_written, args, files, created, config, step_idx, current_input_dir,
                   step_results, workflow_results, loc, attempted, exit_code,
                   summary>>

\* ---------------------------------------------------------- specification
Program ==
    \/ Main_Validate
    \/ Orch_CreateConfig
    \/ Orch_CreateLogger
    \/ Main_AfterCreate
    \/ RW_Init
    \/ RW_Loop
    \/ RW_Record
    \/ RW_Except
    \/ RW_Return
    \/ Main_SummaryLog
    \/ Main_SummaryPrint
    \/ Step_Raises
    \/ Video_Find
    \/ Video_Return
    \/ Convert_Find
    \/ Convert_Return
    \/ Describe_Find
    \/ Describe_Dir
    \/ Describe_Style
    \/ Describe_Return
    \/ Describe_Check
    \/ Html_Find
    \/ Html_Return

Next ==
    \/ Program
    \/ Interrupt
    \/ Interrupt_Swallowed

Spec == Init /\ [][Next]_vars

\* the program takes its next step whenever it has one; the user is never
\* obliged to interrupt
LiveSpec == Spec /\ WF_vars(Program)

\* ------------------------------------------- one orchestrator, several runs
\* the step lists of a caller who describes and renders
DescribeHtmlLists ==
    {s \in StepLists : \A k \in DOMAIN s : s[k] \in {"describe", "html"}}

\* a caller constructs one orchestrator and calls run_workflow on it
OrchestratorInit ==
    /\ args \in {a \in Invocations :
                    /\ a.entry = "api" /\ ~a.dry_run /\ a.input_exists
                    /\ a.config_exists /\ a.prompt_style
                    /\ a.steps \in DescribeHtmlLists}
    /\ files \in InitFiles(args)
    /\ created = {}
    /\ pc = "create_config"
    /\ config = "unset"
    /\ step_idx = 0
    /\ current_input_dir = None
    /\ step_results = EmptyDict
    /\ workflow_results = EmptyDict
    /\ loc = NoLoc
    /\ proc = NoProc
    /\ calls = <<>>
    /\ attempted = <<>>
    /\ exit_code = -1
    /\ summary = 0
    /\ interrupt_at = None
    /\ descriptions_txt =
          IF files["descriptions"].descriptions > 0 THEN {"earlier"} ELSE {}
    /\ entries_written = {}
    /\ run_no = 1
    /\ NamingAtRest
    /\ LibraryAtRest

\* the caller calls run_workflow again on the same orchestrator, with the
\* same directories and a step list of its choice; self.step_results is
\* assigned in __init__ only
RW_Again ==
    /\ pc = "returned"
    /\ run_no < MaxRuns
    /\ \E s \in DescribeHtmlLists : args' = [args EXCEPT !.steps = s]
    /\ run_no' = run_no + 1
    /\ pc' = "rw_init"
    /\ UNCHANGED <<naming_vars, library_vars, descriptions_txt, entries_written,
                   files, created, config, step_idx, current_input_dir,
                   step_results, workflow_results, loc, proc, calls, attempted,
                   exit_code, summary, interrupt_at>>

OrchestratorNext ==
    \/ Orch_CreateConfig
    \/ Orch_CreateLogger
    \/ RW_Init
    \/ RW_Loop
    \/ RW_Record
    \/ RW_Except
    \/ RW_Return
    \/ Step_Raises
    \/ Describe_Find
    \/ Describe_Dir
    \/ Describe_Return
    \/ Describe_Check
    \/ Html_Find
    \/ Html_Return
    \/ RW_Again

OrchestratorSpec == OrchestratorInit /\ [][OrchestratorNext]_vars

\* ---------------------------------------------------------------- strings
\* a Python str is a sequence of one-character strings
LowerCase ==
    <<"a", "b", "c", "d", "e", "f", "g", "h", "i", "j", "k", "l", "m",
      "n", "o", "p", "q", "r", "s", "t", "u", "v", "w", "x", "y", "z">>

UpperCase ==
    <<"A", "B", "C", "D", "E", "F", "G", "H", "I", "J", "K", "L", "M",
      "N", "O", "P", "Q", "R", "S", "T", "U", "V", "W", "X", "Y", "Z">>

Digits == <<"0", "1", "2", "3", "4", "5", "6", "7", "8", "9">>

IsIn(chars, c) == \E i \in DOMAIN chars : chars[i] = c

IndexIn(chars, c) == CHOOSE i \in DOMAIN chars : chars[i] = c

\* ord(c), for the characters in use
ord(c) ==
    IF IsIn(LowerCase, c) THEN 96 + IndexIn(LowerCase, c)
    ELSE IF IsIn(UpperCase, c) THEN 64 + IndexIn(UpperCase, c)
    ELSE IF IsIn(Digits, c) THEN 47 + IndexIn(Digits, c)
    ELSE CASE c = " " -> 32
           [] c = "-" -> 45
           [] c = "." -> 46
           [] c = "/" -> 47
           [] c = ":" -> 58
           [] c = "_" -> 95

\* str.lower() on one character
lower(c) == IF IsIn(UpperCase, c) THEN LowerCase[IndexIn(UpperCase, c)] ELSE c

\* str.lower()
Lowered(str) == [i \in DOMAIN str |-> lower(str[i])]

\* the characters the regular expression [\w\-_.] accepts
IsSafeChar(c) ==
    \/ IsIn(LowerCase, c) \/ IsIn(UpperCase, c) \/ IsIn(Digits, c)
    \/ c \in {"_", "-", "."}

RECURSIVE CollapseUnderscores(_)
\* re.sub(r'_+', '_', s)
CollapseUnderscores(str) ==
    IF Len(str) < 2 THEN str
    ELSE IF str[1] = "_" /\ str[2] = "_" THEN CollapseUnderscores(Tail(str))
    ELSE <<str[1]>> \o CollapseUnderscores(Tail(str))

RECURSIVE StripUnderscores(_)
\* s.strip('_')
StripUnderscores(str) ==
    IF str = <<>> THEN str
    ELSE IF str[1] = "_" THEN StripUnderscores(Tail(str))
    ELSE IF str[Len(str)] = "_" THEN StripUnderscores(SubSeq(str, 1, Len(str) - 1))
    ELSE str

Unknown == <<"u", "n", "k", "n", "o", "w", "n">>

Detailed == <<"d", "e", "t", "a", "i", "l", "e", "d">>

\* sanitize_name; <<>> stands for both None and the empty string
sanitize_name(name) ==
    IF name = <<>> THEN Unknown
    ELSE LET safe_name == [i \in DOMAIN name |->
                              IF IsSafeChar(name[i]) THEN name[i] ELSE "_"]
         IN Lowered(StripUnderscores(CollapseUnderscores(safe_name)))

\* ----------------------------------------------- naming the output directory
\* the characters of the model and prompt style names enumerated
NameAlphabet == {"a", "B", "_", ":", "."}

\* what --model and --prompt-style may carry; <<>> when the option is absent
NameArgs == UNION {[1..n -> NameAlphabet] : n \in 0..MaxName}

\* get_effective_model, in an installation whose configuration files name
\* no model
get_effective_model(model) ==
    IF model # <<>> THEN sanitize_name(model) ELSE Unknown

\* get_effective_prompt_style, in an installation whose configuration files
\* name no prompt style
get_effective_prompt_style(prompt_style) ==
    IF prompt_style # <<>> THEN sanitize_name(prompt_style) ELSE Detailed

\* datetime.now().strftime("%Y%m%d_%H%M%S"): one string per second
strftime(t) == <<Digits[t + 1]>>

\* main(): f"workflow_{model_name}_{prompt_style}_{timestamp}", under the
\* directory the run was started from
OutputDirName(model_name, prompt_style, timestamp) ==
    <<"w", "o", "r", "k", "f", "l", "o", "w", "_">> \o model_name \o <<"_">>
        \o prompt_style \o <<"_">> \o timestamp

\* no invocation of the workflow is under way
WorkflowAtRest ==
    /\ args = [entry |-> "api", dry_run |-> FALSE, input_exists |-> TRUE,
               config_exists |-> TRUE, prompt_style |-> FALSE,
               steps |-> <<"video">>]
    /\ files = [d \in {InputDir, "extracted_frames", "converted_images",
                       "descriptions"} |-> NoFiles]
    /\ created = {}
    /\ pc = "idle"
    /\ config = "unset"
    /\ step_idx = 0
    /\ current_input_dir = None
    /\ step_results = EmptyDict
    /\ workflow_results = EmptyDict
    /\ loc = NoLoc
    /\ proc = NoProc
    /\ calls = <<>>
    /\ attempted = <<>>
    /\ exit_code = -1
    /\ summary = 0
    /\ interrupt_at = None
    /\ descriptions_txt = {}
    /\ entries_written = {}
    /\ run_no = 1

NamingInit ==
    /\ WorkflowAtRest
    /\ LibraryAtRest
    /\ NamingAtRest

\* a second passes
Tick ==
    /\ clock < MaxClock
    /\ clock' = clock + 1
    /\ UNCHANGED <<workflow_vars, library_vars, resolved>>

\* a run is started without --output-dir, from the same directory as the
\* others: main() resolves its output directory
Main_ResolveOutputDir ==
    /\ Len(resolved) < MaxRuns
    /\ \E model \in NameArgs, prompt_style \in NameArgs :
          resolved' = Append(resolved,
              OutputDirName(get_effective_model(model),
                            get_effective_prompt_style(prompt_style),
                            strftime(clock)))
    /\ UNCHANGED <<workflow_vars, library_vars, clock>>

NamingNext ==
    \/ Tick
    \/ Main_ResolveOutputDir

NamingSpec == NamingInit /\ [][NamingNext]_vars

\* ------------------------------------------------- workflow_utils.py, paths
\* a path is the sequence of its components, a component a str
N_in == <<"i", "n">>

N_sub == <<"s", "u", "b">>

N_nope == <<"n", "o", "p", "e">>

N_out == <<"o", "u", "t">>

N_a_jpg == <<"a", ".", "j", "p", "g">>

N_b_jpg == <<"b", ".", "j", "p", "g">>

N_c_heic == <<"c", ".", "h", "e", "i", "c">>

N_d_HEIC == <<"d", ".", "H", "E", "I", "C">>

N_x == <<"x">>

video_extraction == <<"v", "i", "d", "e", "o", "_", "e", "x", "t", "r", "a", "c", "t", "i", "o", "n">>

image_conversion == <<"i", "m", "a", "g", "e", "_", "c", "o", "n", "v", "e", "r", "s", "i", "o", "n">>

image_description == <<"i", "m", "a", "g", "e", "_", "d", "e", "s", "c", "r", "i", "p", "t", "i", "o", "n">>

html_generation == <<"h", "t", "m", "l", "_", "g", "e", "n", "e", "r", "a", "t", "i", "o", "n">>

extracted_frames == <<"e", "x", "t", "r", "a", "c", "t", "e", "d", "_", "f", "r", "a", "m", "e", "s">>

converted_images == <<"c", "o", "n", "v", "e", "r", "t", "e", "d", "_", "i", "m", "a", "g", "e", "s">>

descriptions == <<"d", "e", "s", "c", "r", "i", "p", "t", "i", "o", "n", "s">>

html_reports == <<"h", "t", "m", "l", "_", "r", "e", "p", "o", "r", "t", "s">>

\* the mapping the nested function of get_default_config returns; also the
\* contents of a configuration file written after it
DefaultMapping ==
    [steps |->
        [s \in {video_extraction, image_conversion, image_description,
                html_generation} |->
            CASE s = video_extraction  -> extracted_frames
              [] s = image_conversion  -> converted_images
              [] s = image_description -> descriptions
              [] s = html_generation   -> html_reports],
     file_patterns |->
        [videos |-> <<<<".", "m", "p", "4">>,
                      <<".", "a", "v", "i">>,
                      <<".", "m", "k", "v">>,
                      <<".", "m", "o", "v">>,
                      <<".", "w", "m", "v">>,
                      <<".", "f", "l", "v">>,
                      <<".", "w", "e", "b", "m">>,
                      <<".", "m", "4", "v">>>>,
         images |-> <<<<".", "j", "p", "g">>,
                      <<".", "j", "p", "e", "g">>,
                      <<".", "p", "n", "g">>,
                      <<".", "b", "m", "p">>,
                      <<".", "t", "i", "f", "f">>,
                      <<".", "w", "e", "b", "p">>>>,
         heic |-> <<<<".", "h", "e", "i", "c">>,
              <<".", "h", "e", "i", "f">>>>,
         descriptions |-> <<<<"i", "m", "a", "g", "e", "_", "d", "e", "s", "c", "r", "i", "p", "t", "i", "o", "n", "s", ".", "t", "x", "t">>>>]]

\* a configuration file whose image patterns overlap: a name that ends in
\* ".jpg" also ends in "jpg"
OverlapMapping ==
    [DefaultMapping EXCEPT !.file_patterns.images = <<<<".", "j", "p", "g">>, <<"j", "p", "g">>>>]

\* the configuration files a WorkflowConfig is constructed on
ConfigFiles ==
    {[name |-> "missing.json", exists |-> FALSE, contents |-> <<>>],
     [name |-> "workflow_config.json", exists |-> TRUE, contents |-> <<DefaultMapping>>],
     [name |-> "overlap.json", exists |-> TRUE, contents |-> <<OverlapMapping>>]}

\* WorkflowConfig.get_default_config: its body defines a nested function and
\* returns nothing; <<>> stands for None, <<d>> for the dict d
get_default_config == <<>>

\* WorkflowConfig.load_config
load_config(config_file) ==
    IF config_file.exists THEN config_file.contents ELSE get_default_config

\* WorkflowConfig.__init__
WorkflowConfig(config_file) ==
    [config_file |-> config_file.name, config |-> load_config(config_file)]

\* the outcome of a call: an exception, or a value
Raise == [raised |-> TRUE, value |-> <<>>]

Return(v) == [raised |-> FALSE, value |-> v]

\* WorkflowConfig.get_file_patterns: self.config.get("file_patterns",
\* {}).get(pattern_type, []); None has no attribute get
get_file_patterns(wc, pattern_type) ==
    IF wc.config = <<>> THEN Raise
    ELSE IF pattern_type \in DOMAIN wc.config[1].file_patterns
    THEN Return(wc.config[1].file_patterns[pattern_type])
    ELSE Return(<<>>)

\* WorkflowConfig.get_step_config, of which the callers read output_subdir
get_step_config(wc, step_name) ==
    IF wc.config = <<>> THEN Raise
    ELSE IF step_name \in DOMAIN wc.config[1].steps
    THEN Return([output_subdir |-> wc.config[1].steps[step_name]])
    ELSE Return(EmptyDict)

\* the base output directory of the WorkflowConfig at hand
base_output_dir == <<N_out>>

IsDir(fs, path) == path \in DOMAIN fs /\ fs[path] = "dir"

IsFile(fs, path) == path \in DOMAIN fs /\ fs[path] = "file"

\* the path and the directories above it
Prefixes(path) == {SubSeq(path, 1, n) : n \in 1..Len(path)}

\* a mkdir that refuses a directory that is already there
Mkdir_ExistNotOk(fs, path) ==
    IF path \in DOMAIN fs \/ \E a \in Prefixes(path) : IsFile(fs, a)
    THEN [raised |-> TRUE, disk |-> fs]
    ELSE [raised |-> FALSE,
          disk |-> [x \in DOMAIN fs \cup Prefixes(path) |->
                       IF x \in DOMAIN fs THEN fs[x] ELSE "dir"]]

\* Path.mkdir(parents=True, exist_ok=True)
Mkdir(fs, path) ==
    IF \E a \in Prefixes(path) : IsFile(fs, a)
    THEN [raised |-> TRUE, disk |-> fs]
    ELSE [raised |-> FALSE,
          disk |-> [x \in DOMAIN fs \cup Prefixes(path) |->
                       IF x \in DOMAIN fs THEN fs[x] ELSE "dir"]]

\* WorkflowConfig.get_step_output_dir: the outcome and the disk it leaves
WorkflowConfig_get_step_output_dir(wc, fs, step_name, create) ==
    IF wc.config = <<>> THEN [raised |-> TRUE, value |-> <<>>, disk |-> fs]
    ELSE LET step_config == get_step_config(wc, step_name).value
             subdir == IF "output_subdir" \in DOMAIN step_config
                       THEN step_config.output_subdir ELSE step_name
             output_dir == base_output_dir \o <<subdir>>
             made == Mkdir(fs, output_dir)
         IN IF ~create THEN [raised |-> FALSE, value |-> output_dir, disk |-> fs]
            ELSE IF made.raised THEN [raised |-> TRUE, value |-> <<>>, disk |-> fs]
            ELSE [raised |-> FALSE, value |-> output_dir, disk |-> made.disk]

\* -------------------------------------- workflow_utils.py, FileDiscovery
\* the disks the library is called on: in/ with a.jpg and c.heic, with or
\* without d.HEIC, with or without sub/b.jpg; out/descriptions absent, a
\* directory, or a regular file
DiskOf(dirs, regular) ==
    [p \in dirs \cup regular |-> IF p \in dirs THEN "dir" ELSE "file"]

Disk(upper, sub, out) ==
    DiskOf({<<N_in>>}
             \cup (IF sub THEN {<<N_in, N_sub>>} ELSE {})
             \cup (IF out # "absent" THEN {<<N_out>>} ELSE {})
             \cup (IF out = "dir" THEN {<<N_out, descriptions>>} ELSE {}),
           {<<N_in, N_a_jpg>>, <<N_in, N_c_heic>>}
             \cup (IF upper THEN {<<N_in, N_d_HEIC>>} ELSE {})
             \cup (IF sub THEN {<<N_in, N_sub, N_b_jpg>>} ELSE {})
             \cup (IF out = "file" THEN {<<N_out, descriptions>>} ELSE {}))

Disks ==
    {Disk(upper, sub, out) :
        upper \in BOOLEAN, sub \in BOOLEAN, out \in {"absent", "dir", "file"}}

EndsWith(str, suffix) ==
    /\ Len(str) >= Len(suffix)
    /\ SubSeq(str, Len(str) - Len(suffix) + 1, Len(str)) = suffix

\* fnmatch of a name against "*" + pattern; pathlib folds the case on a
\* platform whose paths are case-insensitive and nowhere else
Matches(case_sensitive, name, pattern) ==
    IF case_sensitive THEN EndsWith(name, pattern)
    ELSE EndsWith(Lowered(name), Lowered(pattern))

IsUnder(path, directory) ==
    /\ Len(path) > Len(directory)
    /\ SubSeq(path, 1, Len(directory)) = directory

\* the order of str: by code point, a prefix first
StrLess(a, b) ==
    \E i \in 1..(Len(a) + 1) :
        /\ i <= Len(b) + 1
        /\ \A j \in 1..(i - 1) : a[j] = b[j]
        /\ \/ i > Len(a) /\ i <= Len(b)
           \/ i <= Len(a) /\ i <= Len(b) /\ ord(a[i]) < ord(b[i])

\* the component pathlib compares: case-folded where paths are
\* case-insensitive
Part(case_sensitive, name) == IF case_sensitive THEN name ELSE Lowered(name)

\* the order of Path: component by component
PathLess(case_sensitive, p, q) ==
    \E i \in 1..(Len(p) + 1) :
        /\ i <= Len(q) + 1
        /\ \A j \in 1..(i - 1) :
              Part(case_sensitive, p[j]) = Part(case_sensitive, q[j])
        /\ \/ i > Len(p) /\ i <= Len(q)
           \/ /\ i <= Len(p)
              /\ i <= Len(q)
              /\ StrLess(Part(case_sensitive, p[i]), Part(case_sensitive, q[i]))

RECURSIVE Sorted(_, _)
\* sorted(S) for a set S of paths
Sorted(case_sensitive, S) ==
    IF S = {} THEN <<>>
    ELSE LET least == CHOOSE p \in S :
                          \A q \in S \ {p} : PathLess(case_sensitive, p, q)
         IN <<least>> \o Sorted(case_sensitive, S \ {least})

Reversed(seq) == [i \in 1..Len(seq) |-> seq[Len(seq) + 1 - i]]

SeqRange(seq) == {seq[i] : i \in DOMAIN seq}

\* Path.rglob / Path.glob of "*" + pattern: the entries below the directory
\* whose name matches, in the order in which the system lists them
glob(fs, case_sensitive, directory, pattern, recursive, scan) ==
    LET found == {p \in DOMAIN fs :
                     /\ IsUnder(p, directory)
                     /\ recursive \/ Len(p) = Len(directory) + 1
                     /\ Matches(case_sensitive, p[Len(p)], pattern)}
    IN IF scan = "ascending" THEN Sorted(case_sensitive, found)
       ELSE Reversed(Sorted(case_sensitive, found))

RECURSIVE Extended(_, _, _, _, _, _)
\* for pattern in patterns: files.extend(...)
Extended(fs, case_sensitive, directory, patterns, recursive, scan) ==
    IF patterns = <<>> THEN <<>>
    ELSE glob(fs, case_sensitive, directory, Head(patterns), recursive, scan)
            \o Extended(fs, case_sensitive, directory, Tail(patterns),
                        recursive, scan)

\* the list as the loop built it
AsExtended(case_sensitive, listed) == listed

\* sorted(list(set(files)))
SortedNoDuplicates(case_sensitive, listed) ==
    Sorted(case_sensitive, SeqRange(listed))

\* FileDiscovery.find_files_by_type
FileDiscovery_find_files_by_type(wc, fs, case_sensitive, directory, file_type, recursive, scan) ==
    LET patterns == get_file_patterns(wc, file_type) IN
    IF patterns.raised THEN Raise
    ELSE IF patterns.value = <<>> THEN Return(<<>>)
    ELSE Return(SortedNoDuplicates(case_sensitive,
                    Extended(fs, case_sensitive, directory, patterns.value,
                             recursive, scan)))

\* ------------------------------------------- the library, call after call
\* a WorkflowConfig is constructed on one configuration file, on one disk, on
\* a platform whose paths are case-sensitive or not; nothing has been called
LibraryInit ==
    /\ WorkflowAtRest
    /\ NamingAtRest
    /\ disk \in Disks
    /\ lib_config \in {WorkflowConfig(f) : f \in ConfigFiles}
    /\ glob_case_sensitive \in BOOLEAN
    /\ ret = <<>>

\* what a call is remembered by
Called(fn, call_args, outcome, before) ==
    [fn |-> fn, args |-> call_args, raised |-> outcome.raised,
     value |-> outcome.value, disk_before |-> before]

SearchedDirs == {<<N_in>>, <<N_in, N_sub>>, <<N_nope>>}

AskedTypes == {"images", "heic", "docs"}

AskedSteps == {image_description, N_x}

Call_find_files_by_type ==
    /\ Len(ret) < MaxCalls
    /\ \E directory \in SearchedDirs, file_type \in AskedTypes,
          recursive \in BOOLEAN, scan \in {"ascending", "descending"} :
          ret' = Append(ret,
                    Called("find_files_by_type",
                           <<directory, file_type, recursive>>,
                           FileDiscovery_find_files_by_type(lib_config, disk,
                               glob_case_sensitive, directory, file_type,
                               recursive, scan),
                           disk))
    /\ UNCHANGED <<workflow_vars, naming_vars, disk, lib_config,
                   glob_case_sensitive>>

Call_get_step_output_dir ==
    /\ Len(ret) < MaxCalls
    /\ \E step_name \in AskedSteps, create \in BOOLEAN :
          LET out == WorkflowConfig_get_step_output_dir(lib_config, disk,
                                                        step_name, create)
          IN /\ ret' = Append(ret, Called("get_step_output_dir",
                                          <<step_name, create>>, out, disk))
             /\ disk' = out.disk
    /\ UNCHANGED <<workflow_vars, naming_vars, lib_config, glob_case_sensitive>>

Call_get_file_patterns ==
    /\ Len(ret) < MaxCalls
    /\ \E pattern_type \in AskedTypes :
          ret' = Append(ret, Called("get_file_patterns", <<pattern_type>>,
                                    get_file_patterns(lib_config, pattern_type),
                                    disk))
    /\ UNCHANGED <<workflow_vars, naming_vars, disk, lib_config,
                   glob_case_sensitive>>

Call_get_step_config ==
    /\ Len(ret) < MaxCalls
    /\ \E step_name \in AskedSteps :
          ret' = Append(ret, Called("get_step_config", <<step_name>>,
                                    get_step_config(lib_config, step_name),
                                    disk))
    /\ UNCHANGED <<workflow_vars, naming_vars, disk, lib_config,
                   glob_case_sensitive>>

LibraryNext ==
    \/ Call_find_files_by_type
    \/ Call_get_step_output_dir
    \/ Call_get_file_patterns
    \/ Call_get_step_config

LibrarySpec == LibraryInit /\ [][LibraryNext]_vars

\* ------------------------------------- the output directory is not private
\* somebody else removes image_descriptions.txt from the descriptions
\* directory while the orchestrator is at work
Env_RemoveDescriptionFile ==
    /\ files["descriptions"].descriptions > 0
    /\ files' = [files EXCEPT !["descriptions"].descriptions = 0]
    /\ descriptions_txt' = {}
    /\ UNCHANGED <<naming_vars, library_vars, run_no, entries_written, args,
                   created, pc, config, step_idx, current_input_dir,
                   step_results, workflow_results, loc, proc, calls, attempted,
                   exit_code, summary, interrupt_at>>

SharedDiskNext ==
    \/ OrchestratorNext
    \/ Env_RemoveDescriptionFile

SharedDiskSpec == OrchestratorInit /\ [][SharedDiskNext]_vars

\* ------------------------------------- describe_images on a tree of paths
\* the disks the describe step is run on: in/ with or without a.jpg;
\* out/converted_images and out/extracted_frames absent, empty, or holding
\* one image
DescribeDisk(img, conv, frames) ==
    DiskOf({<<N_in>>}
             \cup (IF conv # "absent" \/ frames # "absent" THEN {<<N_out>>} ELSE {})
             \cup (IF conv # "absent" THEN {<<N_out, converted_images>>} ELSE {})
             \cup (IF frames # "absent" THEN {<<N_out, extracted_frames>>} ELSE {}),
           (IF img THEN {<<N_in, N_a_jpg>>} ELSE {})
             \cup (IF conv = "full"
                   THEN {<<N_out, converted_images, N_b_jpg>>} ELSE {})
             \cup (IF frames = "full"
                   THEN {<<N_out, extracted_frames, N_a_jpg>>} ELSE {}))

DescribeDisks ==
    {DescribeDisk(img, conv, frames) :
        img \in BOOLEAN, conv \in {"absent", "empty", "full"},
        frames \in {"absent", "empty", "full"}}

\* the input directories: in/, and the current directory, in which both in/
\* and the output directory out/ lie
DescribedDirs == {<<N_in>>, <<>>}

\* "d.exists() and any(d.iterdir())"
HasEntries(fs, d) ==
    /\ IsDir(fs, d)
    /\ \E p \in DOMAIN fs : IsUnder(p, d) /\ Len(p) = Len(d) + 1

\* image_describer.py: supported_formats
supported_formats ==
    <<<<".", "j", "p", "g">>, <<".", "j", "p", "e", "g">>, <<".", "p", "n", "g">>,
      <<".", "b", "m", "p">>, <<".", "t", "i", "f", "f">>, <<".", "w", "e", "b", "p">>>>

\* image_describer.py, is_supported_image: file_path.suffix.lower() in
\* self.supported_formats
is_supported_image(name) ==
    \E k \in DOMAIN supported_formats : EndsWith(Lowered(name), supported_formats[k])

\* image_describer.py <directory> --recursive: the images process_directory
\* submits to the model, every file below the directory that is a supported
\* image
process_directory(fs, directory_path) ==
    Sorted(TRUE, {p \in DOMAIN fs :
                     /\ IsFile(fs, p)
                     /\ IsUnder(p, directory_path)
                     /\ is_supported_image(p[Len(p)])})

RECURSIVE DescribeEach(_, _, _, _, _)
\* describe_images, "for i, search_dir in enumerate(search_dirs)" when every
\* sub-invocation exits with 0: the images submitted and total_processed
DescribeEach(wc, fs, case_sensitive, search_dirs, scan) ==
    IF search_dirs = <<>> THEN [submitted |-> <<>>, processed |-> 0]
    ELSE LET search_dir == Head(search_dirs)
             dir_image_files ==
                 FileDiscovery_find_files_by_type(wc, fs, case_sensitive,
                     search_dir, "images", TRUE, scan).value
             rest == DescribeEach(wc, fs, case_sensitive, Tail(search_dirs), scan)
         IN IF dir_image_files = <<>> THEN rest
            ELSE [submitted |-> process_directory(fs, search_dir) \o rest.submitted,
                  processed |-> Len(dir_image_files) + rest.processed]

\* WorkflowOrchestrator.describe_images: the outcome and the disk it leaves
WorkflowOrchestrator_describe_images(wc, fs, case_sensitive, input_dir, scan) ==
    LET conv == WorkflowConfig_get_step_output_dir(wc, fs, image_conversion, TRUE)
        frames == WorkflowConfig_get_step_output_dir(wc, conv.disk,
                                                     video_extraction, TRUE)
        search_dirs ==
            <<input_dir>>
            \o (IF HasEntries(frames.disk, conv.value) THEN <<conv.value>> ELSE <<>>)
            \o (IF HasEntries(frames.disk, frames.value) THEN <<frames.value>> ELSE <<>>)
    IN IF conv.raised \/ frames.raised
       THEN [raised |-> TRUE, value |-> <<>>, disk |-> frames.disk]
       ELSE [raised |-> FALSE,
             value |-> DescribeEach(wc, frames.disk, case_sensitive, search_dirs, scan),
             disk |-> frames.disk]

\* an orchestrator is constructed on one configuration file, on one disk;
\* the describe step has not run
DescribeTreeInit ==
    /\ WorkflowAtRest
    /\ NamingAtRest
    /\ disk \in DescribeDisks
    /\ lib_config \in {WorkflowConfig(f) : f \in ConfigFiles}
    /\ glob_case_sensitive \in BOOLEAN
    /\ ret = <<>>

\* one describe step, remembered with its input directory and its outcome
Call_describe_images ==
    /\ \E input_dir \in DescribedDirs, scan \in {"ascending", "descending"} :
          LET out == WorkflowOrchestrator_describe_images(lib_config, disk,
                         glob_case_sensitive, input_dir, scan)
          IN /\ ret' = <<Called("describe_images", <<input_dir>>, out, disk)>>
             /\ disk' = out.disk
    /\ UNCHANGED <<workflow_vars, naming_vars, lib_config, glob_case_sensitive>>

DescribeTreeNext == Call_describe_images

DescribeTreeSpec == DescribeTreeInit /\ [][DescribeTreeNext]_vars

\* --------------------------- the directories of a run and the log file
workflow_output == <<"w", "o", "r", "k", "f", "l", "o", "w", "_", "o", "u", "t", "p", "u", "t">>

logs == <<"l", "o", "g", "s">>

\* f"workflow_{timestamp}.log", whatever the timestamp
N_log == <<"w", "o", "r", "k", "f", "l", "o", "w", ".", "l", "o", "g">>

\* the disks an orchestrator is constructed on: empty; out/ there;
\* workflow_output/logs there; a regular file named x
RunDisks ==
    {DiskOf({}, {}),
     DiskOf({<<N_out>>}, {}),
     DiskOf({<<workflow_output>>, <<workflow_output, logs>>}, {}),
     DiskOf({}, {<<N_x>>})}

\* the base_output_dir argument of the constructor: none, the directory
\* the runs are given, another directory
ConstructedOn == {None, <<N_out>>, <<N_x>>}

\* the step lists of the runs
RunStepLists ==
    {st \in UNION {[1..n -> {"video", "convert", "describe", "html"}] : n \in 1..MaxRunSteps} :
        \A a, b \in DOMAIN st : st[a] = st[b] => a = b}

\* WorkflowConfig.base_output_dir, the property: the directory that was set,
\* else the one of the configuration, "workflow_output" when it names none;
\* None has no attribute get
WorkflowConfig_base_output_dir(wc, base_dir) ==
    IF base_dir # None THEN Return(base_dir)
    ELSE IF wc.config = <<>> THEN Raise
    ELSE Return(<<workflow_output>>)

\* WorkflowLogger.__init__ with log_to_file: the log file it opens and the
\* disk it leaves
WorkflowLogger(fs, logger_base) ==
    LET logs_dir == logger_base \o <<logs>>
        made == Mkdir(fs, logs_dir)
        log_filename == logs_dir \o <<N_log>>
    IN IF made.raised \/ IsDir(made.disk, log_filename)
       THEN [raised |-> TRUE, value |-> <<>>, disk |-> made.disk]
       ELSE [raised |-> FALSE, value |-> log_filename,
             disk |-> [x \in DOMAIN made.disk \cup {log_filename} |->
                          IF x = log_filename THEN "file" ELSE made.disk[x]]]

\* WorkflowOrchestrator.__init__: the orchestrator, by the base directory of
\* its configuration and the file its logger writes
WorkflowOrchestrator_init(wc, fs, base_dir) ==
    LET logger_base == WorkflowConfig_base_output_dir(wc, base_dir)
        logger == WorkflowLogger(fs, logger_base.value)
    IN IF logger_base.raised THEN [raised |-> TRUE, value |-> <<>>, disk |-> fs]
       ELSE IF logger.raised
       THEN [raised |-> TRUE, value |-> <<>>, disk |-> logger.disk]
       ELSE [raised |-> FALSE,
             value |-> [base_dir |-> logger_base.value,
                        log_filename |-> logger.value],
             disk |-> logger.disk]

RECURSIVE MkdirEach(_, _, _)
\* "for step in steps: step_dir.mkdir(parents=True, exist_ok=True)"
MkdirEach(fs, base, names) ==
    IF names = <<>> THEN [raised |-> FALSE, disk |-> fs]
    ELSE LET made == Mkdir(fs, base \o <<Head(names)>>)
         IN IF made.raised THEN made ELSE MkdirEach(made.disk, base, Tail(names))

\* workflow_utils.create_workflow_paths
create_workflow_paths(fs, base) ==
    MkdirEach(fs, base, <<extracted_frames, converted_images, descriptions,
                          html_reports, logs>>)

RECURSIVE StepOutputDirs(_, _, _)
\* run_workflow, "for step in steps": the output directory each step is
\* given, and the disk get_step_output_dir leaves
StepOutputDirs(wc, fs, steps) ==
    IF steps = <<>> THEN [raised |-> FALSE, value |-> <<>>, disk |-> fs]
    ELSE LET step_name == CASE Head(steps) = "video"    -> video_extraction
                            [] Head(steps) = "convert"  -> image_conversion
                            [] Head(steps) = "describe" -> image_description
                            [] Head(steps) = "html"     -> html_generation
             step_output_dir ==
                 WorkflowConfig_get_step_output_dir(wc, fs, step_name, TRUE)
             rest == StepOutputDirs(wc, step_output_dir.disk, Tail(steps))
         IN IF step_output_dir.raised THEN step_output_dir
            ELSE IF rest.raised THEN rest
            ELSE [raised |-> FALSE,
                  value |-> <<step_output_dir.value>> \o rest.value,
                  disk |-> rest.disk]

\* WorkflowOrchestrator.run_workflow(input_dir, base_output_dir, steps), by
\* the directories it uses: the output directory of each step, the file the
\* logger writes, and the orchestrator after set_base_output_dir
WorkflowOrchestrator_run_workflow(wc, fs, self, steps) ==
    LET output_dir == base_output_dir
        workflow_paths == create_workflow_paths(fs, output_dir)
        dirs == StepOutputDirs(wc, workflow_paths.disk, steps)
    IN IF workflow_paths.raised
       THEN [raised |-> TRUE, value |-> <<>>, disk |-> workflow_paths.disk]
       ELSE IF dirs.raised THEN [raised |-> TRUE, value |-> <<>>, disk |-> dirs.disk]
       ELSE [raised |-> FALSE,
             value |-> [output_dir |-> output_dir,
                        step_output_dirs |-> dirs.value,
                        log_filename |-> self.log_filename,
                        self |-> [self EXCEPT !.base_dir = output_dir]],
             disk |-> dirs.disk]

\* no orchestrator is constructed yet
RunDirsInit ==
    /\ WorkflowAtRest
    /\ NamingAtRest
    /\ disk \in RunDisks
    /\ lib_config \in {WorkflowConfig(f) : f \in ConfigFiles}
    /\ glob_case_sensitive = TRUE
    /\ ret = <<>>

\* WorkflowOrchestrator(config_file, base_output_dir=...)
Call_WorkflowOrchestrator ==
    /\ ret = <<>>
    /\ \E base_dir \in ConstructedOn :
          LET out == WorkflowOrchestrator_init(lib_config, disk, base_dir)
          IN /\ ret' = <<Called("WorkflowOrchestrator", <<base_dir>>, out, disk)>>
             /\ disk' = out.disk
    /\ UNCHANGED <<workflow_vars, naming_vars, lib_config, glob_case_sensitive>>

\* orchestrator.run_workflow(input_dir, out, steps), on the orchestrator the
\* constructor or the run before it left
Call_run_workflow ==
    /\ Len(ret) \in 1..MaxCalls
    /\ ~ret[Len(ret)].raised
    /\ \E steps \in RunStepLists :
          LET self == IF Len(ret) = 1 THEN ret[1].value ELSE ret[Len(ret)].value.self
              out == WorkflowOrchestrator_run_workflow(lib_config, disk, self, steps)
          IN /\ ret' = Append(ret, Called("run_workflow", <<steps>>, out, disk))
             /\ disk' = out.disk
    /\ UNCHANGED <<workflow_vars, naming_vars, lib_config, glob_case_sensitive>>

RunDirsNext == Call_WorkflowOrchestrator \/ Call_run_workflow

RunDirsSpec == RunDirsInit /\ [][RunDirsNext]_vars

\* ---------------------------------------------- sanitize_name, call by call
\* the names sanitize_name is called on
SanitizeArgs == UNION {[1..n -> NameAlphabet] : n \in 0..MaxSanitized}

\* nothing has been sanitized; the disk and the configuration play no part
SanitizeInit ==
    /\ WorkflowAtRest
    /\ NamingAtRest
    /\ LibraryAtRest

\* one call of sanitize_name, remembered with its argument and its value
Call_sanitize_name ==
    /\ \E name \in SanitizeArgs :
          ret' = <<Called("sanitize_name", <<name>>,
                          Return(sanitize_name(name)), disk)>>
    /\ UNCHANGED <<workflow_vars, naming_vars, disk, lib_config,
                   glob_case_sensitive>>

SanitizeNext == Call_sanitize_name

SanitizeSpec == SanitizeInit /\ [][SanitizeNext]_vars

\* ------------------------------------------------------------------ claims
Terminated == pc \in {"exited", "returned", "raised"}

\* run_workflow was called
RunStarted == workflow_results # EmptyDict

\* run_workflow returned its result to the caller
RunReturned ==
    \/ pc \in {"returned", "summary_log", "summary_print"}
    \/ pc = "exited" /\ (summary > 0 \/ interrupt_at \in {"summary_log", "summary_print"})

Requested(step) == \E k \in DOMAIN args.steps : args.steps[k] = step

\* the step ran and reported success=True
Succeeded(step) ==
    /\ step \in DOMAIN step_results
    /\ step_results[step].success

EveryStepSucceeded == \A k \in DOMAIN args.steps : Succeeded(args.steps[k])

Invoked(tool) == \E k \in DOMAIN calls : calls[k].tool = tool

\* the orchestrator blocks on an external process that never returns
Hung == proc.tool # None /\ proc.hangs

\* C1: the result run_workflow returns has success=True if and only if every
\* requested step reported success=True, that is if and only if steps_failed
\* is empty, for every list of steps, names outside the four included
C1_SuccessIffNoStepFailed ==
    RunReturned =>
        /\ workflow_results.success <=> EveryStepSucceeded
        /\ workflow_results.success <=> workflow_results.steps_failed = <<>>

\* C2: whenever run_workflow was called and the run has ended without an
\* interrupt, run_workflow returned a result and every requested step was
\* attempted exactly once, in the order requested
C2_EveryStepAttemptedOnce ==
    (RunStarted /\ Terminated /\ interrupt_at = None) =>
        /\ RunReturned
        /\ [k \in DOMAIN attempted |-> attempted[k].step]
              = SelectSeq(args.steps, LAMBDA st : st \in {"video", "convert", "describe", "html"})

\* C3: an external process that never returns is cut off by a timeout: the
\* step is recorded as failed and run_workflow goes on to return
C3_TimeoutBoundsEveryProcess ==
    Hung ~> (RunReturned /\ workflow_results.steps_failed # <<>>)

\* C4: with --dry-run and valid arguments main() exits with code 0 and no
\* directory and no file is created between its start and its exit
C4_DryRunCreatesNothing ==
    (args.entry = "cli" /\ args.dry_run /\ args.input_exists /\ ~HasUnknown(args.steps)) =>
        /\ created = {}
        /\ (pc = "exited" /\ interrupt_at = None) => exit_code = 0

\* C5: a --steps token outside the four valid names makes main() exit with a
\* non-zero code before an orchestrator is created, before any directory or
\* file is created and before any step runs
C5_InvalidStepsRejected ==
    (args.entry = "cli" /\ HasUnknown(args.steps)) =>
        /\ pc \in {"main", "exited"}
        /\ config = "unset"
        /\ created = {}
        /\ ~RunStarted /\ attempted = <<>> /\ calls = <<>>
        /\ pc = "exited" => exit_code > 0

C5_Witness ==
    /\ args.entry = "cli" /\ args.input_exists /\ HasUnknown(args.steps)
    /\ Len(args.steps) > 1 /\ args.steps[1] = "describe"
    /\ pc = "exited" /\ exit_code = 1

\* C6: a run that is neither a dry run nor interrupted exits with code 0 if
\* and only if every requested step succeeded, and with code 1 otherwise (a
\* step failed or an error was not caught)
C6_ExitCodeReflectsSteps ==
    (args.entry = "cli" /\ ~args.dry_run /\ pc = "exited" /\ interrupt_at = None) =>
        /\ exit_code \in {0, 1}
        /\ exit_code = 0 <=> EveryStepSucceeded

C6_Witness ==
    /\ args.entry = "cli" /\ ~args.dry_run /\ interrupt_at = None
    /\ pc = "exited" /\ exit_code = 1
    /\ Len(args.steps) = 2 /\ Succeeded(args.steps[1])
    /\ args.steps[2] \in DOMAIN step_results /\ ~Succeeded(args.steps[2])

\* the positions inside the creation of the orchestrator and inside a step
CreationOrStep ==
    {"create_config", "create_logger", "video_find", "video_run", "convert_find",
     "convert_run", "describe_find", "describe_dir", "describe_style",
     "describe_run", "html_find", "html_run"}

\* C7: a keyboard interrupt that arrives while the orchestrator is being
\* created or while a step is running makes main() exit with code 130, and
\* no part of the final workflow summary is emitted
C7_InterruptExits130 ==
    interrupt_at \in CreationOrStep =>
        /\ pc = "exited" /\ exit_code = 130
        /\ summary = 0

\* the tool each step runs
ToolOf(step) ==
    CASE step = "video"    -> "video_frame_extractor.py"
      [] step = "convert"  -> "ConvertImage.py"
      [] step = "describe" -> "image_describer.py"
      [] step = "html"     -> "descriptions_to_html.py"

\* the number of input files of its category a step has in front of it
InputFilesOf(step) ==
    CASE step = "video"    -> files[loc.input_dir].videos
      [] step = "convert"  -> files[InputDir].heic
      [] step = "describe" -> files[InputDir].images + files["converted_images"].images
                                 + files["extracted_frames"].images

\* C8: when a video, convert or describe step finds no matching input file
\* it returns success=True with processed=0 and has invoked no external
\* process
C8_NoInputNoProcess ==
    \A step \in {"video", "convert", "describe"} :
        (pc = "record" /\ args.steps[step_idx] = step /\ InputFilesOf(step) = 0) =>
            /\ loc.res.success
            /\ Get(loc.res, "processed") = 0
            /\ ~Invoked(ToolOf(step))

C8_Witness ==
    /\ pc = "record" /\ args.steps[step_idx] = "describe"
    /\ InputFilesOf("describe") = 0
    /\ Get(loc.res, "processed") = 0
    /\ Invoked("ConvertImage.py")

\* what C9 promises of a run of [describe, html]
DescribeHtmlNoOp ==
    /\ Succeeded("describe") /\ Get(step_results["describe"], "processed") = 0
    /\ Succeeded("html") /\ Get(step_results["html"], "processed") = 0
    /\ ~Invoked("descriptions_to_html.py")
    /\ "image_descriptions.html" \notin created

Raised(step) ==
    /\ step \in DOMAIN step_results
    /\ "error" \in DOMAIN step_results[step]
    /\ step_results[step].error = <<"exception">>

ConvertThenDescribe ==
    \E a, b \in DOMAIN args.steps :
        a < b /\ args.steps[a] = "convert" /\ args.steps[b] = "describe"

\* the convert step's external process exited with a non-zero status
ConvertExitedNonZero ==
    /\ "convert" \in DOMAIN step_results
    /\ ~step_results["convert"].success
    /\ \E e \in {"", "diagnostic"} : step_results["convert"].error = <<e>>

\* the describe step ran against the original input directory and its result
\* is recorded
DescribeRanOnInput ==
    /\ "describe" \in DOMAIN step_results
    /\ \E k \in DOMAIN attempted :
          attempted[k].step = "describe" /\ attempted[k].input_dir = InputDir

\* C10 as stated: when convert comes before describe and the converter exits
\* non-zero, steps_failed is exactly [convert] unless describe also fails,
\* overall success is False, and describe still runs against the original
\* input directory with its own recorded result
C10_ConvertFailureIsolated ==
    (RunReturned /\ ConvertThenDescribe /\ ConvertExitedNonZero) =>
        /\ Succeeded("describe") => workflow_results.steps_failed = <<"convert">>
        /\ ~workflow_results.success
        /\ DescribeRanOnInput

\* C10 as amended: steps_failed is exactly [convert] unless describe or
\* another requested step also fails; the rest as stated
C10_ConvertFailureRecorded ==
    (RunReturned /\ ConvertThenDescribe /\ ConvertExitedNonZero) =>
        /\ (\A k \in DOMAIN args.steps :
               args.steps[k] # "convert" => Succeeded(args.steps[k]))
              => workflow_results.steps_failed = <<"convert">>
        /\ ~workflow_results.success
        /\ DescribeRanOnInput

C10_Witness ==
    /\ RunReturned /\ ConvertExitedNonZero
    /\ args.steps = <<"video", "convert", "describe">>
    /\ Succeeded("video") /\ Get(step_results["video"], "processed") > 0
    /\ Succeeded("describe") /\ Get(step_results["describe"], "processed") > 0
    /\ workflow_results.steps_failed = <<"convert">>

\* C11: in every run and for every order of the requested steps, the convert
\* and describe step methods are called with the original input directory,
\* never with a directory an earlier step of the run produced
C11_ConvertDescribeGetOriginalInput ==
    \A k \in DOMAIN attempted :
        attempted[k].step \in {"convert", "describe"} =>
            attempted[k].input_dir = InputDir

C11_Witness ==
    /\ Len(attempted) = 2
    /\ attempted[1].step = "video" /\ attempted[2].step = "convert"
    /\ Succeeded("video") /\ Get(step_results["video"], "processed") > 0
    /\ current_input_dir = "extracted_frames"
    /\ attempted[2].input_dir = InputDir

\* C12: after a successful describe step that ran sub-invocations on two or
\* more source directories, image_descriptions.txt in the descriptions
\* directory holds the entries written for every one of those directories
C12_DescriptionsFileIsCumulative ==
    (Succeeded("describe") /\ Cardinality(entries_written) >= 2) =>
        entries_written \subseteq descriptions_txt

\* C13: the step results of one run are not visible to another: when
\* run_workflow is called again on the same orchestrator, the html step of
\* that run is handed an in-memory description file only if a describe step
\* of that same run recorded it
C13_StepResultsNotSharedAcrossRuns ==
    (run_no > 1 /\ pc = "html_find" /\ RecordedDescFile(step_results) # None) =>
        \E k \in 1..(step_idx - 1) : args.steps[k] = "describe"

\* C14: two runs started without --output-dir never resolve to the same
\* output directory, two runs with the same model and prompt style that
\* start within the same clock second included
C14_OutputDirUniquePerRun ==
    \A i, j \in DOMAIN resolved : resolved[i] = resolved[j] => i = j

\* C15: at every point of a run, the output directory of a step exists if
\* and only if that step has run at least once (directories are created
\* lazily, only by the step they belong to)
C15_StepDirsCreatedLazily ==
    RunStarted =>
        \A step \in available_steps :
            (get_step_output_dir(StepConfigName(step)) \in created)
                <=> (\E k \in DOMAIN attempted : attempted[k].step = step)

\* the disk a call left behind
DiskAfter(i) == IF i < Len(ret) THEN ret[i + 1].disk_before ELSE disk

\* the configuration file whose contents are the default mapping
DefaultFile == CHOOSE f \in ConfigFiles : f.contents = <<DefaultMapping>>

\* C16: a WorkflowConfig constructed on a configuration file that does not
\* exist holds the default mapping, and get_step_output_dir, get_step_config
\* and get_file_patterns answer as they do for a file with those contents
C16_MissingConfigLoadsDefault ==
    (lib_config.config_file = "missing.json" /\ ret # <<>>) =>
        /\ lib_config.config = <<DefaultMapping>>
        /\ \A i \in DOMAIN ret :
              LET c == ret[i]
                  wc == WorkflowConfig(DefaultFile)
              IN /\ c.fn = "get_file_patterns" =>
                       [raised |-> c.raised, value |-> c.value]
                           = get_file_patterns(wc, c.args[1])
                 /\ c.fn = "get_step_config" =>
                       [raised |-> c.raised, value |-> c.value]
                           = get_step_config(wc, c.args[1])
                 /\ c.fn = "get_step_output_dir" =>
                       [raised |-> c.raised, value |-> c.value,
                        disk |-> DiskAfter(i)]
                           = WorkflowConfig_get_step_output_dir(
                                 wc, c.disk_before, c.args[1], c.args[2])

\* C17: the list find_files_by_type returns has no duplicate, is in
\* ascending order, holds only paths under the directory that match a
\* pattern registered for the category, and is the same list when the call
\* is repeated on the unchanged disk
C17_FindFilesSortedUniqueUnderDir ==
    \A i \in DOMAIN ret :
        (ret[i].fn = "find_files_by_type" /\ ~ret[i].raised) =>
            LET v == ret[i].value
                directory == ret[i].args[1]
                registered == get_file_patterns(lib_config, ret[i].args[2]).value
            IN /\ \A a, b \in DOMAIN v : a # b => v[a] # v[b]
               /\ \A a, b \in DOMAIN v :
                     a < b => PathLess(glob_case_sensitive, v[a], v[b])
               /\ \A a \in DOMAIN v :
                     /\ v[a] \in DOMAIN ret[i].disk_before
                     /\ IsUnder(v[a], directory)
                     /\ \E k \in DOMAIN registered :
                           Matches(glob_case_sensitive, v[a][Len(v[a])],
                                   registered[k])
               /\ \A j \in DOMAIN ret :
                     (/\ ret[j].fn = "find_files_by_type"
                      /\ ret[j].args = ret[i].args
                      /\ ret[j].disk_before = ret[i].disk_before
                      /\ ~ret[j].raised)
                         => ret[j].value = v

\* find_files_by_type was called twice on in/, recursively, for a category
\* whose patterns overlap, and returned the two image files each time
C17_Witness ==
    /\ Len(ret) = 2
    /\ lib_config.config_file = "overlap.json"
    /\ \A i \in DOMAIN ret :
          /\ ret[i].fn = "find_files_by_type"
          /\ ret[i].args = <<<<N_in>>, "images", TRUE>>
          /\ ~ret[i].raised
          /\ ret[i].value = <<<<N_in, N_a_jpg>>, <<N_in, N_sub, N_b_jpg>>>>

\* C18: find_files_by_type on the heic category returns every file under the
\* directory whose name ends in .heic or .heif, whatever the case of the
\* extension
C18_HeicMatchedWhateverTheCase ==
    \A i \in DOMAIN ret :
        (/\ ret[i].fn = "find_files_by_type"
         /\ ret[i].args[2] = "heic"
         /\ ~ret[i].raised) =>
            \A p \in DOMAIN ret[i].disk_before :
                (/\ IsFile(ret[i].disk_before, p)
                 /\ IsUnder(p, ret[i].args[1])
                 /\ ret[i].args[3] \/ Len(p) = Len(ret[i].args[1]) + 1
                 /\ \E ext \in {<<".", "h", "e", "i", "c">>,
                                <<".", "h", "e", "i", "f">>} :
                        EndsWith(Lowered(p[Len(p)]), ext))
                    => p \in SeqRange(ret[i].value)

\* C19: find_files_by_type returns an empty list and does not raise when the
\* directory does not exist, and returns an empty list when the category is
\* not registered in the configuration
C19_FindFilesEmptyNeverRaises ==
    \A i \in DOMAIN ret :
        ret[i].fn = "find_files_by_type" =>
            /\ ret[i].args[1] \notin DOMAIN ret[i].disk_before =>
                  ~ret[i].raised /\ ret[i].value = <<>>
            /\ (/\ lib_config.config # <<>>
                /\ ret[i].args[2] \notin DOMAIN lib_config.config[1].file_patterns)
                  => ~ret[i].raised /\ ret[i].value = <<>>

\* C20: a second get_step_output_dir(step, create=True) right after one that
\* returned also returns, returns the same path and leaves the disk as the
\* first call left it; with create=False the disk is left unchanged and the
\* value returned is the path under the base output directory
C20_GetStepOutputDirIdempotent ==
    \A i \in DOMAIN ret :
        ret[i].fn = "get_step_output_dir" =>
            /\ ~ret[i].args[2] =>
                  /\ DiskAfter(i) = ret[i].disk_before
                  /\ ~ret[i].raised =>
                        /\ IsUnder(ret[i].value, base_output_dir)
                        /\ Len(ret[i].value) = Len(base_output_dir) + 1
            /\ (/\ i > 1
                /\ ret[i].args[2]
                /\ ret[i - 1].fn = "get_step_output_dir"
                /\ ret[i - 1].args = ret[i].args
                /\ ~ret[i - 1].raised)
                  => /\ ~ret[i].raised
                     /\ ret[i].value = ret[i - 1].value
                     /\ DiskAfter(i) = DiskAfter(i - 1)

\* get_step_output_dir(image_description, create=True) created
\* out/descriptions and was called again; both calls returned
C20_Witness ==
    /\ Len(ret) = 2
    /\ \A i \in DOMAIN ret :
          /\ ret[i].fn = "get_step_output_dir"
          /\ ret[i].args = <<image_description, TRUE>>
          /\ ~ret[i].raised
    /\ <<N_out, descriptions>> \notin DOMAIN ret[1].disk_before
    /\ IsDir(disk, <<N_out, descriptions>>)

\* C21: sanitize_name never returns the empty string, and returns "unknown"
\* for the empty name and for a name made only of characters that are
\* replaced or stripped
C21_SanitizeNameNeverEmpty ==
    \A i \in DOMAIN ret :
        ret[i].fn = "sanitize_name" =>
            LET name == ret[i].args[1] IN
            /\ ret[i].value # <<>>
            /\ (\A k \in DOMAIN name : ~IsSafeChar(name[k]) \/ name[k] = "_")
                  => ret[i].value = Unknown

\* the renderer is running on the description file the html step chose
HtmlChose == pc = "html_run"

\* the description file run_workflow handed to generate_html is usable
ExplicitUsable ==
    /\ RecordedDescFile(step_results) # None
    /\ files[RecordedDescFile(step_results)].descriptions > 0

\* C22: the html step chooses its description file by priority: the
\* explicit file that exists, else the one discovered in the directory it
\* was given, else the one discovered in the descriptions directory, else
\* the one the describe step recorded; a lower source is never used when a
\* higher one yields a file
C22_DescFilePriority ==
    HtmlChose =>
        LET chosen == loc.desc_file
            given == loc.input_dir
            in_given == files[given].descriptions > 0
            in_output == files["descriptions"].descriptions > 0
        IN /\ ExplicitUsable => chosen = RecordedDescFile(step_results)
           /\ (~ExplicitUsable /\ in_given) => chosen = given
           /\ (~ExplicitUsable /\ ~in_given /\ in_output) => chosen = "descriptions"
           /\ (~ExplicitUsable /\ ~in_given /\ ~in_output)
                 => chosen = RecordedDescFile(step_results)

\* the html step had no explicit file and found a description file both in
\* the directory it was given and in the descriptions directory
C22_Witness ==
    /\ HtmlChose
    /\ ~ExplicitUsable
    /\ files[loc.input_dir].descriptions > 0
    /\ files["descriptions"].descriptions > 0
    /\ loc.desc_file = loc.input_dir

\* the html step has looked for its description file
HtmlLooked ==
    /\ pc \in {"html_run", "record"}
    /\ args.steps[step_idx] = "html"

\* C23: when the html step has no usable explicit description file, the
\* directory in which it first looks for one is the original input
\* directory of the run, whatever steps ran before it
C23_HtmlLooksInOriginalInput ==
    (HtmlLooked /\ ~ExplicitUsable) => loc.input_dir = InputDir

\* the sub-invocations of the describer, by their place in the history
DescriberCalls == {k \in DOMAIN calls : calls[k].tool = "image_describer.py"}

\* the place of a directory in the order of the claim
SearchRank(d) ==
    CASE d = InputDir           -> 1
      [] d = "converted_images" -> 2
      [] d = "extracted_frames" -> 3

\* the describe step is returning, or has returned, that result
DescribeReturns(res) ==
    \/ pc = "record" /\ args.steps[step_idx] = "describe" /\ res = loc.res
    \/ "describe" \in DOMAIN step_results /\ res = step_results["describe"]

\* C24: within the describe step the sub-invocations run one at a time in
\* the order input directory, converted images, extracted frames; none is
\* started after one that exited non-zero, and the step then returns
\* success=False with an error that names the directory of that one
C24_DescribeStopsAtFirstFailure ==
    /\ \A i, j \in DescriberCalls :
          i < j => /\ SearchRank(calls[i].dir) < SearchRank(calls[j].dir)
                   /\ calls[i].status = "exited"
                   /\ calls[i].returncode = 0
    /\ \A k \in DescriberCalls :
          calls[k].returncode = 1 =>
              \A res \in {loc.res} \cup {step_results[x] : x \in DOMAIN step_results} :
                    DescribeReturns(res) =>
                        /\ ~res.success
                        /\ Len(res.error) >= 2
                        /\ res.error[2] = calls[k].dir

\* the describer exited 0 on the input directory and non-zero on the
\* converted images, and the step is returning
C24_Witness ==
    /\ pc = "record"
    /\ args.steps[step_idx] = "describe"
    /\ \E i, j \in DescriberCalls :
          /\ i < j
          /\ calls[i].dir = InputDir /\ calls[i].returncode = 0
          /\ calls[j].dir = "converted_images" /\ calls[j].returncode = 1
    /\ HasContent(files, "extracted_frames")
    /\ ~loc.res.success

\* the external processes a step invoked, by their place in the history
CallsOf(step) == {k \in DOMAIN calls : calls[k].tool = ToolOf(step)}

\* every external process the step invoked exited with status 0
AllExitedZero(step) ==
    \A k \in CallsOf(step) :
        calls[k].status = "exited" /\ calls[k].returncode = 0

\* the steps that have returned a result after invoking an external process
StepsWithProcess ==
    {step \in DOMAIN step_results \cap available_steps : CallsOf(step) # {}}

\* C25 as stated: the result of a step that invoked an external process has
\* success=True if and only if every process it invoked exited with 0
C25_SuccessIffAllExitedZero ==
    \A step \in StepsWithProcess :
        step_results[step].success <=> AllExitedZero(step)

\* C25 amended: success=True only if every process the step invoked exited
\* with 0; and if every one exited with 0 the result is success=True, except
\* that the describe step fails with "Description file not created" when
\* image_descriptions.txt is not in the descriptions directory afterwards
C25_SuccessByExitStatusAndFile ==
    \A step \in StepsWithProcess :
        /\ step_results[step].success => AllExitedZero(step)
        /\ AllExitedZero(step) =>
              \/ step_results[step].success
              \/ /\ step = "describe"
                 /\ files["descriptions"].descriptions = 0
                 /\ step_results[step].error = <<"Description file not created">>

\* the describer exited with 0 on every directory, left no description
\* file, and the describe step was recorded as failed
C25_Witness ==
    /\ "describe" \in StepsWithProcess
    /\ AllExitedZero("describe")
    /\ ~step_results["describe"].success

\* C26: every failed step result carries a non-empty error message
C26_FailedResultHasErrorMessage ==
    \A step \in DOMAIN step_results :
        ~step_results[step].success =>
            /\ "error" \in DOMAIN step_results[step]
            /\ \E i \in DOMAIN step_results[step].error :
                  step_results[step].error[i] # ""

\* C27: the directory handed to later video and html steps is the original
\* input directory unless a video or convert step of the run succeeded and
\* processed at least one file, and then it is the output directory of such
\* a step
C27_InputDirChangesOnlyOnOutput ==
    (RunStarted /\ current_input_dir # InputDir) =>
        \E step \in {"video", "convert"} \cap DOMAIN step_results :
            /\ step_results[step].success
            /\ step_results[step].processed >= 1
            /\ step_results[step].output_dir = current_input_dir

\* C28: the html step invokes the renderer only with a description file
\* that exists at that moment
C28_RendererGetsExistingFile ==
    [][(pc = "html_find" /\ pc' = "html_run")
          => files[loc'.desc_file].descriptions > 0]_vars

\* C29: within one describe step no image file is submitted to the
\* describer more than once, and the processed count of the step is the
\* number of distinct image files found, also when the output directory
\* lies inside the input directory
C29_NoImageDescribedTwice ==
    \A i \in DOMAIN ret :
        (ret[i].fn = "describe_images" /\ ~ret[i].raised) =>
            LET submitted == ret[i].value.submitted IN
            /\ \A a, b \in DOMAIN submitted : a # b => submitted[a] # submitted[b]
            /\ ret[i].value.processed = Cardinality(SeqRange(submitted))

\* C30: within one run every step output directory and the log file of the
\* run lie under the output_dir passed to run_workflow, whether or not a
\* base directory was given when the orchestrator was constructed
C30_RunKeepsToItsOutputDir ==
    \A i \in DOMAIN ret :
        (ret[i].fn = "run_workflow" /\ ~ret[i].raised) =>
            /\ \A k \in DOMAIN ret[i].value.step_output_dirs :
                  IsUnder(ret[i].value.step_output_dirs[k], ret[i].value.output_dir)
            /\ IsUnder(ret[i].value.log_filename, ret[i].value.output_dir)

====
